---- MODULE Spec2Model ----
(***************************************************************************)
(* go-errors/errors: errors with an attached stack trace.                  *)
(*                                                                         *)
(* The sources hold two revisions of error.go.  In the first the wrapper   *)
(* is the unexported struct wrappedError (fields err, stack, frames,       *)
(* prefix) behind the interface Error; in the second it is the exported    *)
(* struct Error (fields Err, Stack, Description, Title, stack, frames).    *)
(* The variable `variant` says which revision is built; it never changes.  *)
(*                                                                         *)
(* Strings are sequences of tokens; "" is <<>>; concatenation is \o.       *)
(***************************************************************************)
EXTENDS Integers, Sequences, FiniteSets, TLC

VARIABLES
    variant,        \* "wrappedError" | "Error": the revision of error.go built
    go113,          \* whether the build is for go1.13 or later (the build tag picks Is)
    MaxStackDepth,  \* the package variable MaxStackDepth
    heap,           \* the wrappers allocated so far; a wrapper's address is its index
    born,           \* history: per wrapper, the value of MaxStackDepth when it was made
    applied,        \* history: per wrapper, the prefixes WrapPrefix gave it, oldest first
    resolved,       \* history: per wrapper, whether an introspection call ran the resolver
    last,           \* the last completed call: operation, arguments, result
    pc,             \* per thread: where it stands inside StackFrames()
    self,           \* per thread: the wrapper its StackFrames() call is on
    tmp,            \* per thread: the slice its call holds locally
    returned        \* per thread: what its last StackFrames() call returned, and for which wrapper

vars == <<variant, go113, MaxStackDepth, heap, born, applied, resolved, last, pc, self, tmp, returned>>

-----------------------------------------------------------------------------
(* Bounds of the model *)

MaxObjs == 1          \* wrappers allocated, where every operation is called
MaxLayers == 2        \* wrappers allocated, where only New and Is are called
MaxCallDepth == 2     \* depth of the client's call chain at a constructor call
MaxSkip == 1          \* largest skip passed to Wrap / WrapPrefix
MaxDepthSet == 1      \* largest value a client assigns to MaxStackDepth
MaxPrefixes == 2      \* WrapPrefix calls on wrappers that exist
NThreads == 2         \* threads of the concurrent specification

DefaultMaxStackDepth == 50

Variants == {"wrappedError", "Error"}
Threads == 1..NThreads

Min(a, b) == IF a < b THEN a ELSE b

-----------------------------------------------------------------------------
(* Values.  One record shape for every Go value a call can be handed:      *)
(*   nil   the nil interface                                               *)
(*   str   a string that is not an error                                   *)
(*   ptr   an error of pointer type, as fmt.Errorf makes: id is its address *)
(*   ewci  an errorWithCustomIs struct value: key is Key, id the address   *)
(*         of the pointer error in Err (0: Err is nil)                     *)
(*   unc   an error of a type that == cannot compare (a slice type)        *)
(*   wrap  a *wrappedError / *Error: id is its index in heap               *)

Val(k, i, key, msg) == [kind |-> k, id |-> i, key |-> key, msg |-> msg]

Nil == Val("nil", 0, "", <<>>)
Str(s) == Val("str", 0, "", <<s>>)
Ptr(a, m) == Val("ptr", a, "", <<m>>)
Unc(a, m) == Val("unc", a, "", <<m>>)
Ref(i) == Val("wrap", i, "", <<>>)

EOF == Ptr(1, "EOF")    \* io.EOF
OhDear == Ptr(2, "oh dear")

\* Err's message is kept in msg: Error() needs it
errorWithCustomIs(key, err) == Val("ewci", IF err = Nil THEN 0 ELSE err.id, key, err.msg)

custErr == errorWithCustomIs("TestForFun", EOF)
shouldMatch == errorWithCustomIs("TestForFun", Nil)
shouldNotMatch == errorWithCustomIs("notOk", Nil)

IsError(v) == v.kind \in {"ptr", "ewci", "unc", "wrap"}
IsWrapper(v) == v.kind = "wrap"

\* fmt.Errorf("%v", e): a new pointer error at address a with the formatted text
FormatV(e) == IF e.kind = "nil" THEN <<"<nil>">> ELSE e.msg
fmtErrorf(e, a) == Val("ptr", a, "", FormatV(e))

\* fmt.Sprintf("%s: %s", a, b)
SprintfColon(a, b) == a \o <<": ">> \o b

-----------------------------------------------------------------------------
(* Messages *)

\* Whether v.Error() panics: errorWithCustomIs.Error() calls Err.Error(),
\* a method call on a nil interface when Err is nil; a wrapper's Error()
\* calls its cause's.
RECURSIVE ErrorPanics(_)
ErrorPanics(v) ==
    CASE v.kind = "ewci" -> v.id = 0
      [] v.kind = "wrap" -> ErrorPanics(heap[v.id].err)
      [] OTHER -> FALSE

\* errorWithCustomIs.Error(): "[" + Key + "]: " + Err.Error()
ewciError(v) == <<"[", v.key, "]: ">> \o v.msg

\* v.Error() for a v whose Error() does not panic.  For a wrapper:
\*   msg := err.err.Error(); if err.prefix != "" { msg = Sprintf("%s: %s", err.prefix, msg) }
\* (the Error revision has no prefix field: there prefix is always "")
RECURSIVE Error(_)
Error(v) ==
    CASE v.kind = "ewci" -> ewciError(v)
      [] v.kind = "wrap" ->
            LET err == heap[v.id]
                msg == Error(err.err)
            IN  IF err.prefix # <<>> THEN SprintfColon(err.prefix, msg) ELSE msg
      [] OTHER -> v.msg

\* typeName: "panic" for an uncaughtPanic, else reflect.TypeOf(err).String()
typeName(err) ==
    CASE err.kind = "upanic" -> "panic"
      [] err.kind = "ptr" -> "*errors.errorString"
      [] err.kind = "ewci" -> "errors.errorWithCustomIs"
      [] err.kind = "unc" -> "errors.multiError"
      [] err.kind = "wrap" -> IF variant = "Error" THEN "*errors.Error" ELSE "*errors.wrappedError"
      [] OTHER -> "<nil>"

-----------------------------------------------------------------------------
(* Stack capture and frame resolution *)

\* Return addresses of the library's own functions on the call chain
PCNew == 91
PCWrap == 92
PCWrapPrefix == 93
PCErrorf == 94
PCCustom == 95

\* The client's call chain at depth d, innermost first: d, d-1, .., 1
CallStack(d) == [i \in 1..d |-> d - i + 1]
CallStacks == {CallStack(d) : d \in 1..MaxCallDepth}

\* runtime.Callers(skip, buf) with len(buf) = n, called by the function
\* chain[1], itself called by chain[2], ..: skip 0 is Callers itself, 1 is
\* chain[1].  The addresses written: chain[skip..], at most n of them.
Callers(skip, n, chain) == SubSeq(chain, skip, Min(Len(chain), skip + n - 1))

\* The resolver: one address to one frame
NewStackFrame(p) ==
    [ProgramCounter |-> p, Name |-> "fn" \o ToString(p), File |-> "file" \o ToString(p),
     LineNumber |-> 10 * p]

\* frame.String(): the function name on one line, then a tab, file:line (+0xpc)
FrameString(f) ==
    <<f.Name, "\n", "\t", f.File, ":", ToString(f.LineNumber), " (+0x", ToString(f.ProgramCounter), ")", "\n">>

\* stackFrames: frames[i] = NewStackFrame(stack[i])
stackFrames(stack) == [i \in 1..Len(stack) |-> NewStackFrame(stack[i])]

\* stack(frames): the frames' strings, concatenated
RECURSIVE stack(_)
stack(frames) == IF frames = <<>> THEN <<>> ELSE FrameString(Head(frames)) \o stack(Tail(frames))

\* errorStack: t + " " + err.Error() + "\n" + string(s)
errorStack(t, err, s) == <<t, " ">> \o Error(err) \o <<"\n">> \o s

\* A slice header: ptr is <<>> for nil, else <<a>> for a pointer to the array a
NilSlice == [ptr |-> <<>>, len |-> 0]
Slice(a) == [ptr |-> <<a>>, len |-> Len(a)]
\* What a reader of the header h gets: the first h.len elements behind h.ptr
Elems(h) == IF h.ptr = <<>> THEN <<>> ELSE SubSeq(h.ptr[1], 1, Min(h.len, Len(h.ptr[1])))

-----------------------------------------------------------------------------
(* Chain-aware equality *)

\* e == original on two interface values: "false" when the dynamic types
\* differ, a run-time panic when they are one type that cannot be compared,
\* else the comparison of the values (pointers by address, structs by field)
IfaceEq(a, b) ==
    IF a.kind # b.kind THEN "false"
    ELSE IF a.kind = "unc" THEN "panic"
    ELSE IF a.id = b.id /\ a.key = b.key THEN "true" ELSE "false"

\* Is of the sources: "true", "false", or "panic" when == panics
RECURSIVE Is(_, _)
Is(e, original) ==
    IF IfaceEq(e, original) # "false" THEN IfaceEq(e, original)
    ELSE IF IsWrapper(e) THEN Is(heap[e.id].err, original)
    ELSE IF IsWrapper(original) THEN Is(e, heap[original.id].err)
    ELSE "false"

\* errorWithCustomIs.Is: matched, ok := target.(errorWithCustomIs); ok && matched.Key == ewci.Key
MutEwciIsAlways(ewci, target) == target.kind = "ewci"

ewciIs(ewci, target) == target.kind = "ewci" /\ target.key = ewci.key

\* Is of the go1.13 build: as Is, and the last comparison (neither operand a
\* wrapper, the two not identical) is left to e's Is method when it has one
RECURSIVE Is113(_, _)
Is113(e, original) ==
    IF IfaceEq(e, original) # "false" THEN IfaceEq(e, original)
    ELSE IF IsWrapper(e) THEN Is113(heap[e.id].err, original)
    ELSE IF IsWrapper(original) THEN Is113(e, heap[original.id].err)
    ELSE IF e.kind = "ewci" THEN (IF ewciIs(e, original) THEN "true" ELSE "false")
    ELSE "false"

-----------------------------------------------------------------------------
(* State *)

\* last: the call, what it returned (ret: a value, text: a string, frames,
\* ans: Is's answer), whether it panicked, and whether it ran the resolver
\* for a wrapper an earlier introspection call had run it for
Call(op, arg, arg2, skip, ret, text, frames, ans, panicked) ==
    [op |-> op, arg |-> arg, arg2 |-> arg2, skip |-> skip, ret |-> ret, text |-> text,
     frames |-> frames, ans |-> ans, panicked |-> panicked, again |-> FALSE]

Refs == {Ref(i) : i \in 1..Len(heap)}

Idle == \A t \in Threads : pc[t] = "idle"

Init ==
    /\ variant \in Variants
    /\ go113 \in BOOLEAN
    /\ MaxStackDepth = DefaultMaxStackDepth
    /\ heap = <<>>
    /\ born = <<>>
    /\ applied = <<>>
    /\ resolved = <<>>
    /\ last = Call("init", Nil, Nil, 0, Nil, <<>>, <<>>, "", FALSE)
    /\ pc = [t \in Threads |-> "idle"]
    /\ self = [t \in Threads |-> 0]
    /\ tmp = [t \in Threads |-> NilSlice]
    /\ returned = [t \in Threads |-> [w |-> 0, frames |-> <<>>]]

threadVars == <<pc, self, tmp, returned>>

\* MaxStackDepth = d, by the client
SetMaxStackDepth(d) ==
    /\ Idle
    /\ MaxStackDepth' = d
    /\ last' = Call("SetMaxStackDepth", Nil, Nil, d, Nil, <<>>, <<>>, "", FALSE)
    /\ UNCHANGED <<variant, go113, heap, born, applied, resolved, threadVars>>

-----------------------------------------------------------------------------
(* Construction *)

\* switch e := e.(type) { case error: err = e; default: err = fmt.Errorf("%v", e) }
\* The error fmt.Errorf allocates gets an address no other value has.
causeOf(e) == IF IsError(e) THEN e ELSE fmtErrorf(e, 100 + Len(heap) + 1)

Wrapper(err, stk, frames, prefix, title, desc, text) ==
    [err |-> err, stack |-> stk, frames |-> frames, prefix |-> prefix,
     Title |-> title, Description |-> desc, Stack |-> text]

\* The wrapper the wrappedError revision builds: &wrappedError{err: err, stack: stack[:length]}
wrappedErrorLit(err, stk) == Wrapper(err, stk, NilSlice, <<>>, <<>>, <<>>, <<>>)

\* The Stack string the Error revision's constructors build (err.Error() does not panic)
StackField(err, stk) == errorStack(typeName(err), err, stack(stackFrames(stk)))

\* The heap with obj allocated; prefixes are those it is made with
Allocate(obj, prefixes) ==
    /\ heap' = Append(heap, obj)
    /\ born' = Append(born, MaxStackDepth)
    /\ applied' = Append(applied, prefixes)
    /\ resolved' = Append(resolved, FALSE)

Same == UNCHANGED <<heap, born, applied, resolved>>

\* New's result in the Error revision
NewLit(err, stk) ==
    Wrapper(err, stk, Slice(stackFrames(stk)), <<>>, Error(err), Error(err), StackField(err, stk))

\* Custom's result: frames is not set
CustomLit(err, stk, desc, title) ==
    Wrapper(err, stk, NilSlice, <<>>, title, desc, StackField(err, stk))

\* Wrap's result in the Error revision: Title and Description are not set
WrapLit(err, stk) ==
    Wrapper(err, stk, Slice(stackFrames(stk)), <<>>, <<>>, <<>>, StackField(err, stk))

MutCaptureUnbounded(skip, chain) == SubSeq(chain, skip, Len(chain))

\* stack := make([]uintptr, MaxStackDepth); length := runtime.Callers(skip, stack[:]); stack[:length]
Capture(skip, chain) == Callers(skip, MaxStackDepth, chain)

\* New(e), called with the client's call chain cs
New(e, cs) ==
    LET err == causeOf(e)
        stk == Capture(2, <<PCNew>> \o cs)
    IN  /\ Idle
        /\ IF variant = "Error" /\ ErrorPanics(err)
           THEN /\ last' = Call("New", e, Nil, 0, Nil, <<>>, <<>>, "", TRUE)
                /\ Same
           ELSE /\ Allocate(IF variant = "Error" THEN NewLit(err, stk) ELSE wrappedErrorLit(err, stk),
                            <<>>)
                /\ last' = Call("New", e, Nil, 0, Ref(Len(heap) + 1), <<>>, <<>>, "", FALSE)
        /\ UNCHANGED <<variant, go113, MaxStackDepth, threadVars>>

\* Custom(e, desc, title): the Error revision only
Custom(e, desc, title, cs) ==
    LET err == causeOf(e)
        stk == Capture(2, <<PCCustom>> \o cs)
    IN  /\ Idle
        /\ variant = "Error"
        /\ IF ErrorPanics(err)
           THEN /\ last' = Call("Custom", e, Nil, 0, Nil, <<>>, <<>>, "", TRUE)
                /\ Same
           ELSE /\ Allocate(CustomLit(err, stk, desc, title), <<>>)
                /\ last' = Call("Custom", e, Nil, 0, Ref(Len(heap) + 1), <<>>, <<>>, "", FALSE)
        /\ UNCHANGED <<variant, go113, MaxStackDepth, threadVars>>

MutWrapAlwaysNew(e) == FALSE

\* Wrap's first case: case *wrappedError: return e  (case *Error: return e)
WrapReturnsArg(e) == IsWrapper(e)

\* The wrapper Wrap builds for a value that is no wrapper; chain is the call
\* chain above Wrap
WrapObj(e, skip, chain) ==
    LET err == causeOf(e)
        stk == Capture(2 + skip, <<PCWrap>> \o chain)
    IN  IF variant = "Error" THEN WrapLit(err, stk) ELSE wrappedErrorLit(err, stk)

\* The Error revision's Wrap panics where err.Error() does (errorStack calls it)
WrapPanics(e) == variant = "Error" /\ ErrorPanics(causeOf(e))

\* Wrap(e, skip), called with the client's call chain cs
Wrap(e, skip, cs) ==
    /\ Idle
    /\ IF WrapReturnsArg(e)
       THEN /\ last' = Call("Wrap", e, Nil, skip, e, <<>>, <<>>, "", FALSE)
            /\ Same
       ELSE /\ IF WrapPanics(e)
               THEN /\ last' = Call("Wrap", e, Nil, skip, Nil, <<>>, <<>>, "", TRUE)
                    /\ Same
               ELSE /\ Allocate(WrapObj(e, skip, cs), <<>>)
                    /\ last' = Call("Wrap", e, Nil, skip, Ref(Len(heap) + 1), <<>>, <<>>, "", FALSE)
    /\ UNCHANGED <<variant, go113, MaxStackDepth, threadVars>>

\* Errorf(format, a...): Wrap(fmt.Errorf(format, a...), 1); m is the formatted message
Errorf(m, cs) ==
    LET e == Ptr(100 + Len(heap) + 1, m)
    IN  /\ Idle
        /\ Allocate(WrapObj(e, 1, <<PCErrorf>> \o cs), <<>>)
        /\ last' = Call("Errorf", Nil, Nil, 1, Ref(Len(heap) + 1), <<m>>, <<>>, "", FALSE)
        /\ UNCHANGED <<variant, go113, MaxStackDepth, threadVars>>

\* The calls of WrapPrefix so far
RECURSIVE SumLen(_)
SumLen(q) == IF q = <<>> THEN 0 ELSE Len(Head(q)) + SumLen(Tail(q))
PrefixCalls == SumLen(applied)

MutPrefixAppended(prefix, old) == IF old # <<>> THEN SprintfColon(old, prefix) ELSE prefix

\* if err.prefix != "" { err.prefix = Sprintf("%s: %s", prefix, err.prefix) } else { err.prefix = prefix }
Prefixed(prefix, old) == IF old # <<>> THEN SprintfColon(prefix, old) ELSE prefix

\* WrapPrefix(e, prefix, skip): the wrappedError revision only.  Wrap is
\* called from WrapPrefix with the same skip, so WrapPrefix's own frame is
\* on the chain Wrap captures from.
WrapPrefix(e, prefix, skip, cs) ==
    /\ Idle
    /\ variant = "wrappedError"
    /\ IF WrapReturnsArg(e)
       THEN /\ PrefixCalls < MaxPrefixes
            /\ heap' = [heap EXCEPT ![e.id].prefix = Prefixed(prefix, @)]
            /\ applied' = [applied EXCEPT ![e.id] = Append(@, prefix)]
            /\ last' = Call("WrapPrefix", e, Nil, skip, e, prefix, <<>>, "", FALSE)
            /\ UNCHANGED <<born, resolved>>
       ELSE /\ LET obj == WrapObj(e, skip, <<PCWrapPrefix>> \o cs)
               IN  Allocate([obj EXCEPT !.prefix = Prefixed(prefix, @)], <<prefix>>)
            /\ last' = Call("WrapPrefix", e, Nil, skip, Ref(Len(heap) + 1), prefix, <<>>, "", FALSE)
    /\ UNCHANGED <<variant, go113, MaxStackDepth, threadVars>>

-----------------------------------------------------------------------------
(* Introspection, one call at a time *)

\* Whether a method's assignment to a field of its receiver reaches the
\* wrapper: the Error revision's methods have the receiver (err *Error), the
\* wrappedError revision's (err wrappedError), a copy of the wrapper
PointerReceiver == variant = "Error"

\* if err.frames == nil: the test looks at the slice's pointer
FramesNil(h) == h.ptr = <<>>

MutFramesShort(obj) ==
    IF FramesNil(obj.frames)
    THEN Slice(SubSeq(stackFrames(obj.stack), 1, Len(obj.stack) - 1))
    ELSE obj.frames

\* err.frames after
\*   if err.frames == nil { err.frames = stackFrames(err.stack) }
FramesAfter(obj) == IF FramesNil(obj.frames) THEN Slice(stackFrames(obj.stack)) ELSE obj.frames

\* Whether that statement calls NewStackFrame: the loop runs once per address
RunsResolver(obj) == FramesNil(obj.frames) /\ Len(obj.stack) > 0

\* The statement's effect on the state, for the wrapper at index w
Memoize(w) ==
    /\ heap' = IF PointerReceiver THEN [heap EXCEPT ![w].frames = FramesAfter(heap[w])] ELSE heap
    /\ resolved' = [resolved EXCEPT ![w] = @ \/ RunsResolver(heap[w])]
    /\ UNCHANGED <<born, applied>>

\* The record of an introspection call on the wrapper at index w
Introspected(op, w, text, frames, panicked, ran) ==
    [Call(op, Ref(w), Nil, 0, Nil, text, frames, "", panicked) EXCEPT !.again = ran /\ resolved[w]]

\* w.StackFrames()
StackFrames(w) ==
    /\ Idle
    /\ Memoize(w)
    /\ last' = Introspected("StackFrames", w, <<>>, Elems(FramesAfter(heap[w])), FALSE,
                            RunsResolver(heap[w]))
    /\ UNCHANGED <<variant, go113, MaxStackDepth, threadVars>>

\* w.Stack() of the wrappedError revision (ranges over err.StackFrames()),
\* w.StackTrace() of the Error revision (fills err.frames, then stack(err.frames))
StackTrace(w) ==
    /\ Idle
    /\ Memoize(w)
    /\ last' = Introspected(IF PointerReceiver THEN "StackTrace" ELSE "Stack", w,
                            stack(Elems(FramesAfter(heap[w]))), <<>>, FALSE, RunsResolver(heap[w]))
    /\ UNCHANGED <<variant, go113, MaxStackDepth, threadVars>>

\* w.ErrorStack().  wrappedError: TypeName() + " " + Error() + "\n" + Stack(),
\* so a panic of Error() comes before Stack() is called.  Error:
\* errorStack(err.TypeName(), err, err.StackTrace()), so StackTrace() has run
\* when errorStack calls err.Error().
ErrorStack(w) ==
    /\ Idle
    /\ IF ErrorPanics(Ref(w))
       THEN /\ IF PointerReceiver THEN Memoize(w) ELSE Same
            /\ last' = Introspected("ErrorStack", w, <<>>, <<>>, TRUE,
                                    PointerReceiver /\ RunsResolver(heap[w]))
       ELSE /\ Memoize(w)
            /\ last' = Introspected("ErrorStack", w,
                            errorStack(typeName(heap[w].err), Ref(w), stack(Elems(FramesAfter(heap[w])))),
                            <<>>, FALSE, RunsResolver(heap[w]))
    /\ UNCHANGED <<variant, go113, MaxStackDepth, threadVars>>

\* w.Error()
CallError(w) ==
    /\ Idle
    /\ last' = IF ErrorPanics(Ref(w))
               THEN Call("Error", Ref(w), Nil, 0, Nil, <<>>, <<>>, "", TRUE)
               ELSE Call("Error", Ref(w), Nil, 0, Nil, Error(Ref(w)), <<>>, "", FALSE)
    /\ UNCHANGED <<variant, go113, MaxStackDepth, heap, born, applied, resolved, threadVars>>

\* w.Underlying(): return err.err
CallUnderlying(w) ==
    /\ Idle
    /\ last' = Call("Underlying", Ref(w), Nil, 0, heap[w].err, <<>>, <<>>, "", FALSE)
    /\ UNCHANGED <<variant, go113, MaxStackDepth, heap, born, applied, resolved, threadVars>>

\* w.TypeName()
CallTypeName(w) ==
    /\ Idle
    /\ last' = Call("TypeName", Ref(w), Nil, 0, Nil, <<typeName(heap[w].err)>>, <<>>, "", FALSE)
    /\ UNCHANGED <<variant, go113, MaxStackDepth, heap, born, applied, resolved, threadVars>>

\* Is(e, original), the one the build tag picks
CallIs(e, original) ==
    LET ans == IF go113 THEN Is113(e, original) ELSE Is(e, original)
    IN  /\ Idle
        /\ last' = Call("Is", e, original, 0, Nil, <<>>, <<>>, ans, ans = "panic")
        /\ UNCHANGED <<variant, go113, MaxStackDepth, heap, born, applied, resolved, threadVars>>

-----------------------------------------------------------------------------
(* StackFrames() step by step, for calls that run concurrently.            *)
(*                                                                         *)
(* The code takes no lock and uses no atomic, so nothing orders one        *)
(* thread's accesses to err.frames against another's.  A slice is three    *)
(* words (pointer, length, capacity); the assignment err.frames = f writes *)
(* them one by one, in an order the compiler chooses, and a read in        *)
(* another thread may fall between two of the writes.  The model keeps the *)
(* pointer and the length and lets the two writes happen in either order.  *)

\* The header thread t's code reads as err.frames: the wrapper's with a
\* pointer receiver, the receiver copy's otherwise
Header(t) == IF PointerReceiver THEN heap[self[t]].frames ELSE tmp[t]

\* t calls w.StackFrames(); a value receiver is copied here
Begin(t, w) ==
    /\ pc[t] = "idle"
    /\ pc' = [pc EXCEPT ![t] = "check"]
    /\ self' = [self EXCEPT ![t] = w]
    /\ tmp' = [tmp EXCEPT ![t] = IF PointerReceiver THEN NilSlice ELSE heap[w].frames]
    /\ UNCHANGED <<variant, go113, MaxStackDepth, heap, born, applied, resolved, last, returned>>

\* if err.frames == nil
Check(t) ==
    /\ pc[t] = "check"
    /\ pc' = [pc EXCEPT ![t] = IF FramesNil(Header(t)) THEN "compute" ELSE "return"]
    /\ UNCHANGED <<variant, go113, MaxStackDepth, heap, born, applied, resolved, last, self, tmp, returned>>

\* stackFrames(err.stack), into a slice of t's own; with a value receiver
\* the assignment that follows is to t's copy
Compute(t) ==
    /\ pc[t] = "compute"
    /\ tmp' = [tmp EXCEPT ![t] = Slice(stackFrames(heap[self[t]].stack))]
    /\ resolved' = [resolved EXCEPT ![self[t]] = @ \/ Len(heap[self[t]].stack) > 0]
    /\ pc' = [pc EXCEPT ![t] = IF PointerReceiver THEN "store" ELSE "return"]
    /\ UNCHANGED <<variant, go113, MaxStackDepth, heap, born, applied, last, self, returned>>

\* err.frames = ..: the write of the pointer word
StorePtr(t) ==
    /\ pc[t] \in {"store", "store_ptr"}
    /\ heap' = [heap EXCEPT ![self[t]].frames.ptr = tmp[t].ptr]
    /\ pc' = [pc EXCEPT ![t] = IF pc[t] = "store" THEN "store_len" ELSE "return"]
    /\ UNCHANGED <<variant, go113, MaxStackDepth, born, applied, resolved, last, self, tmp, returned>>

\* err.frames = ..: the write of the length word
StoreLen(t) ==
    /\ pc[t] \in {"store", "store_len"}
    /\ heap' = [heap EXCEPT ![self[t]].frames.len = tmp[t].len]
    /\ pc' = [pc EXCEPT ![t] = IF pc[t] = "store" THEN "store_ptr" ELSE "return"]
    /\ UNCHANGED <<variant, go113, MaxStackDepth, born, applied, resolved, last, self, tmp, returned>>

\* return err.frames
Return(t) ==
    /\ pc[t] = "return"
    /\ returned' = [returned EXCEPT ![t] = [w |-> self[t], frames |-> Elems(Header(t))]]
    /\ pc' = [pc EXCEPT ![t] = "idle"]
    /\ UNCHANGED <<variant, go113, MaxStackDepth, heap, born, applied, resolved, last, self, tmp>>

-----------------------------------------------------------------------------
(* Specifications *)

Prefixes == {<<>>, <<"A">>, <<"B">>}
Skips == 0..MaxSkip
DepthSettings == 0..MaxDepthSet \cup {DefaultMaxStackDepth}
Objs == 1..Len(heap)
Main == CallStack(MaxCallDepth)
Room(n) == Len(heap) < n

\* Every operation of the library, called by one thread from one place
Next ==
    \/ \E e \in {EOF} \cup Refs : Room(MaxObjs) /\ New(e, Main)
    \/ Room(MaxObjs) /\ Wrap(EOF, 0, Main)
    \/ \E e \in Refs, skip \in Skips : Wrap(e, skip, Main)
    \/ \E e \in {EOF} \cup Refs, p \in Prefixes :
            (IsWrapper(e) \/ Room(MaxObjs)) /\ WrapPrefix(e, p, 0, Main)
    \/ Room(MaxObjs) /\ Custom(EOF, <<"desc">>, <<"title">>, Main)
    \/ Room(MaxObjs) /\ Errorf("oh dear", Main)
    \/ \E w \in Objs : StackFrames(w)
    \/ \E w \in Objs : StackTrace(w)
    \/ \E w \in Objs : ErrorStack(w)
    \/ \E w \in Objs : CallError(w)
    \/ \E w \in Objs : CallUnderlying(w)
    \/ \E w \in Objs : CallTypeName(w)
    \/ \E e \in Refs : CallIs(e, EOF)

Spec == Init /\ [][Next]_vars

\* The constructors under a changing MaxStackDepth, called from call chains
\* of every depth
NextDepth ==
    \/ \E d \in DepthSettings : SetMaxStackDepth(d)
    \/ \E cs \in CallStacks : Room(MaxObjs) /\ New(EOF, cs)
    \/ \E e \in {Str("oops")} \cup Refs, skip \in Skips, cs \in CallStacks :
            (IsWrapper(e) \/ Room(MaxObjs)) /\ Wrap(e, skip, cs)
    \/ \E skip \in Skips, cs \in CallStacks : Room(MaxObjs) /\ WrapPrefix(EOF, <<"A">>, skip, cs)
    \/ \E cs \in CallStacks : Room(MaxObjs) /\ Custom(EOF, <<"desc">>, <<"title">>, cs)
    \/ \E cs \in CallStacks : Room(MaxObjs) /\ Errorf("oh dear", cs)

SpecDepth == Init /\ [][NextDepth]_vars

\* Is on values wrapped by New any number of times
Plain == {EOF, OhDear, custErr, shouldMatch, shouldNotMatch, Unc(3, "multi")}

Errors == Plain \cup {Nil} \cup Refs

NextIs ==
    \/ \E e \in {EOF, custErr, shouldMatch, Unc(3, "multi"), Str("oops")} \cup Refs :
            Room(MaxLayers) /\ New(e, Main)
    \/ \E e, original \in Errors : CallIs(e, original)

SpecIs == Init /\ [][NextIs]_vars

\* StackFrames() called by several threads on wrappers New and Custom made
NextConc ==
    \/ Room(MaxObjs) /\ New(EOF, Main)
    \/ Room(MaxObjs) /\ Custom(EOF, <<"desc">>, <<"title">>, Main)
    \/ \E t \in Threads, w \in Objs : Begin(t, w)
    \/ \E t \in Threads : Check(t)
    \/ \E t \in Threads : Compute(t)
    \/ \E t \in Threads : StorePtr(t)
    \/ \E t \in Threads : StoreLen(t)
    \/ \E t \in Threads : Return(t)

SpecConc == Init /\ [][NextConc]_vars

-----------------------------------------------------------------------------
(* Properties *)

\* x and every value under it: its cause, the cause's cause, ..
RECURSIVE Chain(_)
Chain(x) == IF IsWrapper(x) THEN {x} \cup Chain(heap[x.id].err) ELSE {x}

\* The value under every wrapper layer of x
RECURSIVE Base(_)
Base(x) == IF IsWrapper(x) THEN Base(heap[x.id].err) ELSE x

\* pn + ": " + .. + ": " + p1 + ": " + m, for ps = <<p1, .., pn>>
RECURSIVE Accumulated(_, _)
Accumulated(ps, m) == IF ps = <<>> THEN m ELSE Accumulated(Tail(ps), Head(ps) \o <<": ">> \o m)

NonEmpty(ps) == \A i \in 1..Len(ps) : ps[i] # <<>>

IntrospectionOps == {"StackFrames", "Stack", "StackTrace", "ErrorStack"}

\* C1: Wrap(w, skip) of a wrapper w returns w itself, whatever skip is: no
\* wrapper is allocated and no field of any wrapper changes.
C1_WrapIsIdentity ==
    [][(last'.op = "Wrap" /\ IsWrapper(last'.arg))
        => (last'.ret = last'.arg /\ heap' = heap /\ born' = born /\ applied' = applied)]_vars

C1_Witness ==
    /\ last.op = "Wrap" /\ IsWrapper(last.arg) /\ last.skip > 0
    /\ last.ret = last.arg
    /\ heap[last.arg.id].prefix # <<>>

\* C5: WrapPrefix on a wrapper returns that wrapper, and after the non-empty
\* prefixes p1, .., pn were given to a wrapper, in this order, its Error() is
\* pn + ": " + .. + ": " + p1 + ": " + m, m being its cause's message.
C5_PrefixesAccumulate ==
    /\ (last.op = "WrapPrefix" /\ IsWrapper(last.arg)) => last.ret = last.arg
    /\ \A w \in Objs :
          (NonEmpty(applied[w]) /\ ~ErrorPanics(Ref(w)))
            => Error(Ref(w)) = Accumulated(applied[w], Error(heap[w].err))

C5_Witness ==
    /\ last.op = "WrapPrefix" /\ IsWrapper(last.arg) /\ last.ret = last.arg
    /\ applied[last.ret.id] = << <<"B">>, <<"A">> >>
    /\ Error(last.ret) = <<"A", ": ", "B", ": ", "EOF">>

\* C6: over the introspection calls on one wrapper the resolver runs in the
\* first call that needs frames only, and that call leaves the frames in the
\* wrapper's cache.
C6_ResolvedOnce ==
    /\ ~last.again
    /\ (last.op \in IntrospectionOps /\ ~last.panicked) => ~FramesNil(heap[last.arg.id].frames)

\* C7: a wrapper's stack is no longer than MaxStackDepth was when the wrapper
\* was made, and no later step, a change of MaxStackDepth included, changes
\* the stack of a wrapper that exists.
C7_DepthReadAtCapture ==
    [][/\ \A w \in 1..Len(heap) : heap'[w].stack = heap[w].stack /\ born'[w] = born[w]
       /\ \A w \in (Len(heap) + 1)..Len(heap') :
             Len(heap'[w].stack) <= MaxStackDepth /\ born'[w] = MaxStackDepth
       /\ \A w \in 1..Len(heap') : Len(heap'[w].stack) <= born'[w]]_vars

C7_Witness ==
    /\ last.op = "SetMaxStackDepth"
    /\ \E w \in Objs : Len(heap[w].stack) > MaxStackDepth /\ born[w] > MaxStackDepth

\* C8: in the Error revision a wrapper that New, Wrap or Errorf has just
\* made has its title and its description equal to its cause's message.
C8_TitleDefaults ==
    (variant = "Error" /\ last.op \in {"New", "Wrap", "Errorf"} /\ ~last.panicked /\ last.ret # last.arg)
        => /\ heap[last.ret.id].Title = Error(heap[last.ret.id].err)
           /\ heap[last.ret.id].Description = Error(heap[last.ret.id].err)

Layers(x, a) == Chain(x) \ Chain(a)

\* x is a wrapped some times and y is b wrapped some times, every layer a
\* wrapper made for it: no layer of one is the other operand or under it
Wrapped(x, a, y, b) ==
    /\ a \in Chain(x) /\ b \in Chain(y)
    /\ Layers(x, a) \cap Chain(y) = {}
    /\ Layers(y, b) \cap Chain(x) = {}

Comparable(x) == Base(x).kind # "unc"

\* C2: Is is chain-transparent: when x is a and y is b under layers New
\* made, however many, Is(x, y) is what Is(a, b) is.
C2_ChainTransparent ==
    \A x, y, a, b \in Errors : Wrapped(x, a, y, b) => Is(x, y) = Is(a, b)

\* Chain transparency where no value == cannot compare is under an operand
C2_ChainTransparentComparable ==
    \A x, y, a, b \in Errors :
        (Wrapped(x, a, y, b) /\ Comparable(x) /\ Comparable(y)) => Is(x, y) = Is(a, b)

C4_Symmetric ==
    \A x, y \in Errors :
        (Base(x).kind # "ewci" /\ Base(y).kind # "ewci") => Is(x, y) = Is(y, x)

\* Symmetry where no value == cannot compare is under an operand
C4_SymmetricComparable ==
    \A x, y \in Errors :
        (Base(x).kind # "ewci" /\ Base(y).kind # "ewci" /\ Comparable(x) /\ Comparable(y))
            => Is(x, y) = Is(y, x)

\* C10: every StackFrames() call, whatever runs beside it, returns the
\* resolution of the wrapper's whole stack: as many frames as addresses,
\* the i-th the resolution of the i-th.
C10_ConsistentFrames ==
    \A t \in Threads :
        returned[t].w # 0 => returned[t].frames = stackFrames(heap[returned[t].w].stack)

====
